---- MODULE Spec2Model ----
(***************************************************************************)
(* A model of the comment-tag recognition engine of better-comments        *)
(* (src/src/parser.ts): the Parser's grammar fields, its tag registry with *)
(* the per-tag ranges buffers, and its five public operations.             *)
(*                                                                         *)
(* Text is a sequence of one-character strings; offsets are 0-based as in  *)
(* JavaScript, so the character at offset p of text is text[p + 1].        *)
(* Regular-expression sources are sequences of characters as well, and the *)
(* three scans are the backtracking matches of the expressions the code    *)
(* builds, in the engine's priority order.                                 *)
(***************************************************************************)
EXTENDS Integers, Sequences, FiniteSets, TLC

VARIABLES
    contributions,               \* the 'better-comments' configuration
    tags,                        \* CommentTag[]: tag, escapedTag, ranges
    expression,                  \* the single-line expression SetRegex built
    delimiter,
    blockCommentStart,
    blockCommentEnd,
    highlightSingleLineComments,
    highlightMultilineComments,
    highlightJSDoc,
    isPlainText,
    ignoreFirstLine,
    supportedLanguage,
    outcome                      \* the last call: which, on what, how it ended

vars == <<contributions, tags, expression, delimiter, blockCommentStart,
          blockCommentEnd, highlightSingleLineComments,
          highlightMultilineComments, highlightJSDoc, isPlainText,
          ignoreFirstLine, supportedLanguage, outcome>>

grammarVars == <<delimiter, blockCommentStart, blockCommentEnd,
                 highlightSingleLineComments, highlightMultilineComments,
                 highlightJSDoc, isPlainText, ignoreFirstLine,
                 supportedLanguage>>

-----------------------------------------------------------------------------
(* Bounds *)

\* The most ranges the buffers of the tags hold together.
MaxRanges == 2

\* The most fragments a scanned document is put together from.
MaxFragments == 2

-----------------------------------------------------------------------------
(* Characters and strings *)

Min(S) == CHOOSE x \in S : \A y \in S : x <= y

Max(S) == CHOOSE x \in S : \A y \in S : x >= y

\* String.prototype.toLowerCase on one character.
LowerChar(c) ==
    CASE c = "A" -> "a" [] c = "B" -> "b" [] c = "C" -> "c" [] c = "D" -> "d"
      [] c = "E" -> "e" [] c = "F" -> "f" [] c = "G" -> "g" [] c = "H" -> "h"
      [] c = "I" -> "i" [] c = "J" -> "j" [] c = "K" -> "k" [] c = "L" -> "l"
      [] c = "M" -> "m" [] c = "N" -> "n" [] c = "O" -> "o" [] c = "P" -> "p"
      [] c = "Q" -> "q" [] c = "R" -> "r" [] c = "S" -> "s" [] c = "T" -> "t"
      [] c = "U" -> "u" [] c = "V" -> "v" [] c = "W" -> "w" [] c = "X" -> "x"
      [] c = "Y" -> "y" [] c = "Z" -> "z" [] OTHER -> c

toLowerCase(s) == [i \in 1..Len(s) |-> LowerChar(s[i])]

\* The characters a "." does not match, and after which "^" matches under
\* the m flag.
LineTerminators == {"\n", "\r"}

\* The class [ \t].
SpaceTab == {" ", "\t"}

\* The class \s, as far as the model's alphabet goes.
WhiteSpace == {" ", "\t", "\n", "\r", "\f"}

\* text.substring(from, to)
Slice(text, from, to) == [i \in 1..(to - from) |-> text[from + i]]

\* Whether the literal lit stands at offset p of text; ci is the i flag.
LiteralAt(lit, text, p, ci) ==
    /\ p + Len(lit) <= Len(text)
    /\ \A i \in 1..Len(lit) :
           IF ci THEN LowerChar(text[p + i]) = LowerChar(lit[i])
                 ELSE text[p + i] = lit[i]

\* "^": the start of the text, or with the m flag the start of a line.
AtLineStart(text, p, multiline) ==
    \/ p = 0
    \/ multiline /\ p <= Len(text) /\ text[p] \in LineTerminators

\* Where a greedy run of characters of class cls that starts at p ends.
RunEnd(text, p, cls) ==
    Min({q \in p..Len(text) : q = Len(text) \/ text[q + 1] \notin cls})

\* Where "(.*)" and "[^\r\n]*" stop: the end of the line p is on.
EndOfLine(text, p) ==
    Min({q \in p..Len(text) : q = Len(text) \/ text[q + 1] \in LineTerminators})

\* document.positionAt(offset): offsets are clamped to the text.
positionAt(text, offset) ==
    LET o == IF offset < 0 THEN 0
             ELSE IF offset > Len(text) THEN Len(text) ELSE offset
        breaks == {i \in 1..o : text[i] = "\n"}
    IN  [line |-> Cardinality(breaks),
         character |-> IF breaks = {} THEN o ELSE o - Max(breaks)]

-----------------------------------------------------------------------------
(* Escaping *)

\* input.replace(/[.*+?^${}()|[\]\\]/g, '\\$&')
RegExpMeta == {".", "*", "+", "?", "^", "$", "{", "}", "(", ")", "|", "[", "]", "\\"}

\* item.tag.replace(/([()[{*+.$^\\|?])/g, '\\$1')
TagMeta == {"(", ")", "[", "{", "*", "+", ".", "$", "^", "\\", "|", "?"}

RECURSIVE EscapeChars(_, _)
\* s with a backslash put before each of its characters that is in meta.
EscapeChars(s, meta) ==
    IF s = <<>> THEN <<>>
    ELSE (IF Head(s) \in meta THEN <<"\\", Head(s)>> ELSE <<Head(s)>>)
             \o EscapeChars(Tail(s), meta)

escapeRegExp(input) == EscapeChars(input, RegExpMeta)

\* escapedSequence.replace(/\//gi, "\\/"), also delimiter.replace(/\//ig, "\\/")
EscapeSlashes(s) == EscapeChars(s, {"/"})

escapedTag(tag) == EscapeSlashes(EscapeChars(tag, TagMeta))

RECURSIVE Unescape(_)
\* The literal a source of characters and "\x" escapes matches.
Unescape(src) ==
    IF src = <<>> THEN <<>>
    ELSE IF Head(src) = "\\" /\ Len(src) >= 2
         THEN <<src[2]>> \o Unescape(Tail(Tail(src)))
         ELSE <<Head(src)>> \o Unescape(Tail(src))

-----------------------------------------------------------------------------
(* The grammar table *)

\* The Parser's grammar fields, as a record.
Grammar ==
    [delimiter |-> delimiter,
     blockCommentStart |-> blockCommentStart,
     blockCommentEnd |-> blockCommentEnd,
     highlightSingleLineComments |-> highlightSingleLineComments,
     highlightMultilineComments |-> highlightMultilineComments,
     highlightJSDoc |-> highlightJSDoc,
     isPlainText |-> isPlainText,
     ignoreFirstLine |-> ignoreFirstLine,
     supportedLanguage |-> supportedLanguage]

\* The grammar fields as their initialisers leave them.
FreshGrammar ==
    [delimiter |-> <<>>,
     blockCommentStart |-> <<>>,
     blockCommentEnd |-> <<>>,
     highlightSingleLineComments |-> TRUE,
     highlightMultilineComments |-> FALSE,
     highlightJSDoc |-> FALSE,
     isPlainText |-> FALSE,
     ignoreFirstLine |-> FALSE,
     supportedLanguage |-> TRUE]

\* setCommentFormat(singleLine, start, end) on the fields g; an empty
\* singleLine stands for null (and "" is falsy as well).
setCommentFormat(g, singleLine, start, end, c) ==
    LET g1 == IF singleLine # <<>>
              THEN [g EXCEPT !.delimiter = escapeRegExp(singleLine)]
              ELSE [g EXCEPT !.highlightSingleLineComments = FALSE]
    IN  [g1 EXCEPT !.blockCommentStart = escapeRegExp(start),
                   !.blockCommentEnd = escapeRegExp(end),
                   !.highlightMultilineComments = c.multilineComments]

\* case "plaintext" of setDelimiter, which case "alloy" falls through to.
plaintextCase(g, c) ==
    [g EXCEPT !.isPlainText = TRUE,
              !.supportedLanguage = c.highlightPlainText]

\* case "alloy" of setDelimiter: it ends without a break.
alloyCase(g, c) ==
    plaintextCase(
        [g EXCEPT !.delimiter = <<"(", "?", ":", "/", "/", "|", "-", "-", ")">>,
                  !.blockCommentStart = escapeRegExp(<<"/", "*">>),
                  !.blockCommentEnd = escapeRegExp(<<"*", "/">>),
                  !.highlightMultilineComments = c.multilineComments], c)

\* The language ids of the switch's cases, by the case group they share.
CStyleJSDoc == {"apex", "javascript", "javascriptreact", "typescript",
                "typescriptreact"}

CStyle == {"al", "c", "cpp", "csharp", "dafny", "dart", "flax", "fsharp", "go",
           "groovy", "haxe", "java", "jsonc", "kotlin", "less", "pascal",
           "objectpascal", "php", "promela", "rust", "scala", "sass", "scss",
           "shaderlab", "stylus", "swift", "verilog", "vue"}

\* "tcl" has a second case further down that no language code reaches.
HashOnly == {"coffeescript", "cson", "dockerfile", "gdscript", "graphql",
             "julia", "makefile", "perl", "perl6", "puppet", "r", "ruby",
             "shellscript", "tcl", "toml", "yaml"}

DashOnly == {"ada", "hive-sql", "pig", "plsql", "sql"}

QuoteOnly == {"brightscript", "diagram", "vb"}

PercentOnly == {"bibtex", "tex", "erlang", "matlab"}

SemicolonOnly == {"clojure", "racket", "lisp", "rainmeter"}

\* Every language id that has a case in the switch.
TableLanguages ==
    CStyleJSDoc \cup CStyle \cup HashOnly \cup DashOnly \cup QuoteOnly
        \cup PercentOnly \cup SemicolonOnly
        \cup {"asciidoc", "css", "gitconfig", "gitignore", "elixir", "python",
              "nim", "powershell", "lua", "elm", "haskell", "latex", "ahk",
              "gas", "terraform", "COBOL", "fortran-modern", "SAS", "stata",
              "html", "markdown", "xml", "twig", "genstat", "cfml", "alloy",
              "plaintext"}

\* setDelimiter(languageCode) on the fields g, under the configuration c.
setDelimiter(g, languageCode, c) ==
    LET r == [g EXCEPT !.supportedLanguage = TRUE,
                       !.ignoreFirstLine = FALSE,
                       !.isPlainText = FALSE]
    IN  CASE languageCode = "asciidoc" ->
                 setCommentFormat(r, <<"/", "/">>, <<"/", "/", "/", "/">>, <<"/", "/", "/", "/">>, c)
          [] languageCode \in CStyleJSDoc ->
                 [setCommentFormat(r, <<"/", "/">>, <<"/", "*">>, <<"*", "/">>, c)
                      EXCEPT !.highlightJSDoc = TRUE]
          [] languageCode \in CStyle ->
                 setCommentFormat(r, <<"/", "/">>, <<"/", "*">>, <<"*", "/">>, c)
          [] languageCode = "css" ->
                 setCommentFormat(r, <<"/", "*">>, <<"/", "*">>, <<"*", "/">>, c)
          [] languageCode \in HashOnly ->
                 [r EXCEPT !.delimiter = <<"#">>]
          [] languageCode = "gitconfig" ->
                 [r EXCEPT !.delimiter = <<"[", "#", ";", "]">>]
          [] languageCode = "gitignore" ->
                 [r EXCEPT !.delimiter = <<"^", "#">>, !.isPlainText = TRUE]
          [] languageCode \in {"elixir", "python"} ->
                 [setCommentFormat(r, <<"#">>, <<"\"", "\"", "\"">>, <<"\"", "\"", "\"">>, c)
                      EXCEPT !.ignoreFirstLine = TRUE]
          [] languageCode = "nim" ->
                 setCommentFormat(r, <<"#">>, <<"#", "[">>, <<"]", "#">>, c)
          [] languageCode = "powershell" ->
                 setCommentFormat(r, <<"#">>, <<"<", "#">>, <<"#", ">">>, c)
          [] languageCode \in DashOnly ->
                 [r EXCEPT !.delimiter = <<"-", "-">>]
          [] languageCode = "lua" ->
                 setCommentFormat(r, <<"-", "-">>, <<"-", "-", "[", "[">>, <<"]", "]">>, c)
          [] languageCode \in {"elm", "haskell"} ->
                 setCommentFormat(r, <<"-", "-">>, <<"{", "-">>, <<"-", "}">>, c)
          [] languageCode \in QuoteOnly ->
                 [r EXCEPT !.delimiter = <<"'">>]
          [] languageCode \in PercentOnly ->
                 [r EXCEPT !.delimiter = <<"%">>]
          [] languageCode = "latex" ->
                 setCommentFormat(r, <<"%">>, <<"\\", "b", "e", "g", "i", "n", "{", "c", "o", "m", "m", "e", "n", "t", "}">>,
                                  <<"\\", "e", "n", "d", "{", "c", "o", "m", "m", "e", "n", "t", "}">>, c)
          [] languageCode = "ahk" ->
                 setCommentFormat(r, <<";">>, <<"/", "*">>, <<"*", "/">>, c)
          [] languageCode \in SemicolonOnly ->
                 [r EXCEPT !.delimiter = <<";">>]
          [] languageCode \in {"gas", "terraform"} ->
                 setCommentFormat(r, <<"#">>, <<"/", "*">>, <<"*", "/">>, c)
          [] languageCode = "COBOL" ->
                 [r EXCEPT !.delimiter = escapeRegExp(<<"*", ">">>)]
          [] languageCode = "fortran-modern" ->
                 [r EXCEPT !.delimiter = <<"c">>]
          [] languageCode \in {"SAS", "stata"} ->
                 setCommentFormat(r, <<"*">>, <<"/", "*">>, <<"*", "/">>, c)
          [] languageCode \in {"html", "markdown", "xml"} ->
                 setCommentFormat(r, <<"<", "!", "-", "-">>, <<"<", "!", "-", "-">>, <<"-", "-", ">">>, c)
          [] languageCode = "twig" ->
                 setCommentFormat(r, <<"{", "#">>, <<"{", "#">>, <<"#", "}">>, c)
          [] languageCode = "genstat" ->
                 setCommentFormat(r, <<"\\">>, <<"\"">>, <<"\"">>, c)
          [] languageCode = "cfml" ->
                 setCommentFormat(r, <<"<", "!", "-", "-", "-">>, <<"<", "!", "-", "-", "-">>, <<"-", "-", "-", ">">>, c)
          [] languageCode = "alloy" -> alloyCase(r, c)
          [] languageCode = "plaintext" -> plaintextCase(r, c)
          [] OTHER -> [r EXCEPT !.supportedLanguage = FALSE]

-----------------------------------------------------------------------------
(* The expressions and their matches *)

\* The pieces of src between its unescaped "|".
SplitBar(src) ==
    LET bars == {i \in 1..Len(src) :
                     src[i] = "|" /\ (i = 1 \/ src[i - 1] # "\\")}
        cuts == {0} \cup bars \cup {Len(src) + 1}
    IN  {Slice(src, a, Min({b \in cuts : b > a}) - 1) : a \in cuts \ {Len(src) + 1}}

\* What a delimiter source matches: literals that are alternatives of each
\* other, after a "^" or not.  The table's sources are an escaped literal, a
\* class "[#;]", an anchored "^#" and a group "(?:\/\/|--)"; the alternatives
\* of one source are equally long and none is a prefix of another.
DelimiterPattern(src) ==
    LET anchored == src # <<>> /\ Head(src) = "^"
        body == IF anchored THEN Tail(src) ELSE src
        n == Len(body)
    IN  [anchored |-> anchored,
         alternatives |->
             IF n >= 2 /\ body[1] = "[" /\ body[n] = "]"
             THEN {<<body[i]>> : i \in 2..(n - 1)}
             ELSE IF n >= 4 /\ body[1] = "(" /\ body[2] = "?" /\ body[3] = ":"
                         /\ body[n] = ")"
             THEN {Unescape(a) : a \in SplitBar(Slice(body, 3, n - 1))}
             ELSE {Unescape(body)}]

\* Where one delimiter that starts at p may end.
DelimiterAt(text, p, pat, multiline) ==
    IF pat.anchored /\ ~AtLineStart(text, p, multiline) THEN {}
    ELSE {p + Len(a) : a \in {b \in pat.alternatives :
                                  b # <<>> /\ LiteralAt(b, text, p, TRUE)}}

RECURSIVE DelimiterPlus(_, _, _, _)
\* "(delimiter)+": where one or more delimiters that start at p may end.
DelimiterPlus(text, p, pat, multiline) ==
    LET one == DelimiterAt(text, p, pat, multiline)
    IN  one \cup UNION {DelimiterPlus(text, q, pat, multiline) : q \in one}

\* The first of the alternatives (the tag markers, in the registry's order)
\* that stands at p, or 0.
FirstAlternative(text, p, alternatives) ==
    LET hits == {i \in 1..Len(alternatives) :
                     LiteralAt(alternatives[i], text, p, TRUE)}
    IN  IF hits = {} THEN 0 ELSE Min(hits)

RECURSIVE TagPlus(_, _, _)
\* "(tag1|tag2|...)+" at p: greedy, each iteration takes the first
\* alternative that matches, and what follows ("(.*)") always matches, so no
\* choice is ever undone.  last is the group's capture: the last iteration.
\* With no tags the group is "()+" and matches the empty string.
TagPlus(text, p, alternatives) ==
    IF alternatives = <<>>
    THEN [ok |-> TRUE, last |-> <<>>, end |-> p]
    ELSE LET i == FirstAlternative(text, p, alternatives)
             q == p + Len(alternatives[i])
             more == TagPlus(text, q, alternatives)
         IN  IF i = 0 THEN [ok |-> FALSE, last |-> <<>>, end |-> p]
             ELSE IF Len(alternatives[i]) > 0 /\ more.ok THEN more
             ELSE [ok |-> TRUE, last |-> Slice(text, p, q), end |-> q]

NoMatch == [ok |-> FALSE]

\* Where the tags start after the blanks from e on: the blanks are taken
\* greedily and given back one at a time until a tag follows; -1 if none does.
TagStart(text, e, alternatives) ==
    LET ok == {k \in e..RunEnd(text, e, SpaceTab) :
                   TagPlus(text, k, alternatives).ok}
    IN  IF ok = {} THEN -1 ELSE Max(ok)

\* The match from p whose tags start at j and are t.
SingleLineMatch(p, j, t, end) ==
    [ok |-> TRUE, index |-> p, tagAt |-> j, tag |-> t.last, end |-> end]

SingleLineTags(text, p, j, t) ==
    SingleLineMatch(p, j, t, EndOfLine(text, t.end))

\* The match from p when good are the ends of the delimiters after which,
\* blanks skipped, a tag follows: the delimiters are taken greedily.
SingleLineEnds(text, p, alternatives, j) ==
    SingleLineTags(text, p, j, TagPlus(text, j, alternatives))

SingleLineFrom(text, p, alternatives, starts) ==
    LET good == {e \in starts : TagStart(text, e, alternatives) >= 0}
    IN  IF good = {} THEN NoMatch
        ELSE SingleLineEnds(text, p, alternatives,
                            TagStart(text, Max(good), alternatives))

\* The single-line expression tried at offset p.  The expression is
\*   "(" + delimiter + ")+( |\t)*(" + tags + ")+(.*)"   or, for plain text,
\*   "(^)+([ \t]*[ \t]*)(" + tags + ")+(.*)";
\* the delimiters and then the blanks are taken greedily and given back one
\* at a time until a tag follows.
SingleLineAt(text, p, expr, multiline) ==
    SingleLineFrom(text, p, expr.alternatives,
                   IF expr.kind = "plain"
                   THEN IF AtLineStart(text, p, multiline) THEN {p} ELSE {}
                   ELSE DelimiterPlus(text, p, DelimiterPattern(expr.delimiter),
                                      multiline))

\* The leftmost of the matches that start at the offsets found.
SingleLineFirst(text, expr, multiline, found) ==
    IF found = {} THEN NoMatch
    ELSE SingleLineAt(text, Min(found), expr, multiline)

\* regEx.exec(text) with the g flag and lastIndex: the leftmost match at or
\* after lastIndex.
SingleLineExec(text, lastIndex, expr, multiline) ==
    SingleLineFirst(text, expr, multiline,
                    {p \in lastIndex..Len(text) :
                         SingleLineAt(text, p, expr, multiline).ok})

\* First offset at or after p where the literal lit stands, or -1.
IndexOf(text, lit, p) ==
    LET hits == {q \in p..Len(text) : LiteralAt(lit, text, q, FALSE)}
    IN  IF hits = {} THEN -1 ELSE Min(hits)

RECURSIVE OpenerPlus(_, _, _, _)
\* "(start[\s])+", or "(\/\*\*)+" for doc comments: where one or more
\* openers that start at p may end.
OpenerPlus(text, p, start, needSpace) ==
    LET q == p + Len(start) + (IF needSpace THEN 1 ELSE 0)
        here == /\ q > p
                /\ LiteralAt(start, text, p, FALSE)
                /\ needSpace => (q <= Len(text) /\ text[q] \in WhiteSpace)
    IN  IF here THEN {q} \cup OpenerPlus(text, q, start, needSpace) ELSE {}

\* Where the match ends when good are the ends of the openers after which an
\* end is found, or -1.
RegionEnd(text, end, good) ==
    IF good = {} THEN -1 ELSE IndexOf(text, end, Max(good)) + Len(end)

\* The outer expression after its first group, from s on: the openers are
\* taken greedily and given back until the lazy body finds an end.
RegionFrom(text, s, start, end, needSpace) ==
    RegionEnd(text, end,
              {q \in OpenerPlus(text, s, start, needSpace) :
                   IndexOf(text, end, q) >= 0})

\* The match from p when a and b are where it ends with "^" and with
\* "[ \t]" as its first group: "^" is tried first.
RegionMatch(p, a, b) ==
    IF a >= 0 THEN [ok |-> TRUE, index |-> p, end |-> a]
    ELSE IF b >= 0 THEN [ok |-> TRUE, index |-> p, end |-> b]
    ELSE NoMatch

\* "(^|[ \t])(start[\s])+([\s\S]*?)(end)" with the flags gm, tried at p.
RegionAt(text, p, start, end, needSpace) ==
    RegionMatch(p,
                IF AtLineStart(text, p, TRUE)
                THEN RegionFrom(text, p, start, end, needSpace) ELSE -1,
                IF p < Len(text) /\ text[p + 1] \in SpaceTab
                THEN RegionFrom(text, p + 1, start, end, needSpace) ELSE -1)

RegionFirst(text, start, end, needSpace, found) ==
    IF found = {} THEN NoMatch
    ELSE RegionAt(text, Min(found), start, end, needSpace)

RegionExec(text, lastIndex, start, end, needSpace) ==
    RegionFirst(text, start, end, needSpace,
                {p \in lastIndex..Len(text) :
                     RegionAt(text, p, start, end, needSpace).ok})

\* "([ ]*|[:])+([^*/][^\r\n]*)" from u on: where the match ends, or -1.
\* The blanks and colons are taken greedily; the character after them, if it
\* is none of "*" and "/", is the one "[^*/]" takes, a line break included;
\* otherwise the last blank or colon is given back to it.
RemainderEnd(block, u) ==
    LET m == RunEnd(block, u, {" ", ":"})
    IN  IF m < Len(block) /\ block[m + 1] \notin {"*", "/"}
        THEN EndOfLine(block, m + 1)
        ELSE IF m > u THEN EndOfLine(block, m)
        ELSE -1

\* The offsets where group 2 of the inner expression may end, from p on:
\* "([ \t]*[ \t]*)", or "([ \t]*\*[ \t]*)" for doc comments.
LeadEnds(block, p, star) ==
    LET w == RunEnd(block, p, SpaceTab)
    IN  IF ~star THEN p..w
        ELSE IF w < Len(block) /\ block[w + 1] = "*"
        THEN (w + 1)..RunEnd(block, w + 1, SpaceTab)
        ELSE {}

\* The alternatives that stand at t and are followed by a remainder.
LineAlternatives(block, t, alternatives) ==
    IF alternatives = <<>>
    THEN IF RemainderEnd(block, t) >= 0 THEN {0} ELSE {}
    ELSE {i \in 1..Len(alternatives) :
              /\ LiteralAt(alternatives[i], block, t, TRUE)
              /\ RemainderEnd(block, t + Len(alternatives[i])) >= 0}

\* The line match from p whose tag stands at t and is n long.
LineMatch(block, p, t, n) ==
    [ok |-> TRUE, index |-> p, tagAt |-> t, tag |-> Slice(block, t, t + n),
     end |-> RemainderEnd(block, t + n)]

\* The line match from p whose tag stands at t: the first alternative that
\* stands there with a remainder after it (0: there are no tags).
LineTag(block, p, t, alternatives, i) ==
    LineMatch(block, p, t, IF i = 0 THEN 0 ELSE Len(alternatives[i]))

\* The line match from p when good are the offsets after the lead where a
\* tag stands: the lead is taken greedily.
LineFrom(block, p, alternatives, t) ==
    LineTag(block, p, t, alternatives,
            Min(LineAlternatives(block, t, alternatives)))

LineAmong(block, p, alternatives, good) ==
    IF ~AtLineStart(block, p, TRUE) \/ good = {} THEN NoMatch
    ELSE LineFrom(block, p, alternatives, Max(good))

\* The inner expression
\*   "(^)+([ \t]*[ \t]*)(" + tags + ")([ ]*|[:])+([^*/][^\r\n]*)"
\* with the flags igm, tried at offset p of a comment block.
LineAt(block, p, alternatives, star) ==
    LineAmong(block, p, alternatives,
              {t \in LeadEnds(block, p, star) :
                   LineAlternatives(block, t, alternatives) # {}})

LineFirst(block, alternatives, star, found) ==
    IF found = {} THEN NoMatch
    ELSE LineAt(block, Min(found), alternatives, star)

LineExec(block, lastIndex, alternatives, star) ==
    LineFirst(block, alternatives, star,
              {p \in lastIndex..Len(block) :
                   LineAt(block, p, alternatives, star).ok})

-----------------------------------------------------------------------------
(* The scans *)

\* this.tags.find(item => item.tag.toLowerCase() === s.toLowerCase()): the
\* index of the first such tag, or 0 for undefined.
matchTag(registry, s) ==
    LET hits == {i \in 1..Len(registry) :
                     toLowerCase(registry[i].tag) = toLowerCase(s)}
    IN  IF hits = {} THEN 0 ELSE Min(hits)

\* The literal markers the escaped tags of the registry match, in order:
\* characters.join("|") as the alternation of an expression.
Alternatives(registry) ==
    [i \in 1..Len(registry) |-> Unescape(registry[i].escapedTag)]

\* A first line skipped as a whole: the condition without its test of the
\* character.
IgnoredWholeLine(text, index, ignore) ==
    ignore /\ positionAt(text, index).line = 0

\* The condition of lines 106-109 under which a match is skipped.
IgnoredFirstLine(text, index, ignore) ==
    LET startPos == positionAt(text, index)
    IN  ignore /\ startPos.line = 0 /\ startPos.character = 0

\* A range that leaves out the delimiter and the blanks: from the tag on.
HitFromTag(match, tag) ==
    [tag |-> tag, start |-> match.tagAt, end |-> match.end,
     tagAt |-> match.tagAt, from |-> match.index, to |-> match.end]

\* The range of lines 102-104 for a match, with the index of its tag:
\* from match.index to match.index + match[0].length.  tagAt, from and to
\* are not part of the range: where the tag stands, and the whole match.
SingleLineHit(match, tag) ==
    [tag |-> tag, start |-> match.index, end |-> match.end,
     tagAt |-> match.tagAt, from |-> match.index, to |-> match.end]

\* Lines 106-116 for one match: the ranges pushed so far and, unless the
\* match is skipped or its tag is not found, its range.
SingleLineKept(text, match, tag, ignore, hits) ==
    IF IgnoredFirstLine(text, match.index, ignore) \/ tag = 0
    THEN hits ELSE Append(hits, SingleLineHit(match, tag))

RECURSIVE SingleLineLoop(_, _, _, _, _, _, _)
\* One turn of the while loop of FindSingleLineComments, match being what
\* exec returned.  exec leaves lastIndex at the end of its match, so an empty
\* match is found again and again: the loop does not end.
SingleLineTurn(text, match, expr, multiline, ignore, registry, hits) ==
    IF ~match.ok THEN [result |-> "returned", hits |-> hits]
    ELSE IF match.end = match.index
    THEN [result |-> "diverged", hits |-> hits]
    ELSE SingleLineLoop(text, match.end, expr, multiline, ignore, registry,
                        SingleLineKept(text, match,
                                       matchTag(registry, match.tag),
                                       ignore, hits))

\* The while loop of FindSingleLineComments from lastIndex on; hits are the
\* ranges pushed so far, each with the index of its tag.
SingleLineLoop(text, lastIndex, expr, multiline, ignore, registry, hits) ==
    SingleLineTurn(text, SingleLineExec(text, lastIndex, expr, multiline),
                   expr, multiline, ignore, registry, hits)

\* The body of FindSingleLineComments on text.  Before any SetRegex the
\* expression is "", which matches the empty string at 0 with no group 3:
\* match[3].toLowerCase() throws, unless the match is skipped first.
SingleLineScan(text, expr, multiline, ignore, registry) ==
    IF expr.kind = "empty"
    THEN [result |-> IF IgnoredFirstLine(text, 0, ignore)
                     THEN "diverged" ELSE "threw",
          hits |-> <<>>]
    ELSE SingleLineLoop(text, 0, expr, multiline, ignore, registry, <<>>)

\* A range that takes in the lead of the line: from line.index on.
LineHitFromLead(base, to, line, tag) ==
    [tag |-> tag, start |-> base + line.index, end |-> base + line.end,
     tagAt |-> base + line.tagAt, from |-> base, to |-> to]

\* A range left relative to the comment block: match.index is not added.
LineHitInBlock(base, to, line, tag) ==
    [tag |-> tag, start |-> line.tagAt, end |-> line.end,
     tagAt |-> base + line.tagAt, from |-> base, to |-> to]

\* The range of lines 160-162 and 209-211 for a line match in the comment
\* block that is the outer match from base to to: from
\* match.index + line.index + line[2].length to
\* match.index + line.index + line[0].length.
LineHit(base, to, line, tag) ==
    [tag |-> tag, start |-> base + line.tagAt, end |-> base + line.end,
     tagAt |-> base + line.tagAt, from |-> base, to |-> to]

\* Lines 164-168 and 213-217 for one line match: the ranges pushed so far
\* and, if its tag is found, its range.
LineKept(base, to, line, tag, hits) ==
    IF tag = 0 THEN hits ELSE Append(hits, LineHit(base, to, line, tag))

RECURSIVE LineLoop(_, _, _, _, _, _, _)
\* One turn of the inner while loop, line being what exec returned.
LineTurn(block, base, line, alternatives, star, registry, hits) ==
    IF ~line.ok THEN hits
    ELSE LineLoop(block, base, line.end, alternatives, star, registry,
                  LineKept(base, base + Len(block), line,
                           matchTag(registry, line.tag), hits))

\* The inner while loop of FindBlockComments and FindJSDocComments over one
\* comment block, which stands at offset base of the text.
LineLoop(block, base, lastIndex, alternatives, star, registry, hits) ==
    LineTurn(block, base, LineExec(block, lastIndex, alternatives, star),
             alternatives, star, registry, hits)

RECURSIVE RegionLoop(_, _, _, _, _, _, _)
\* One turn of the outer while loop, match being what exec returned: the
\* comment block is match[0].
RegionTurn(text, match, start, end, star, registry, hits) ==
    IF ~match.ok THEN hits
    ELSE RegionLoop(text, match.end, start, end, star, registry,
                    LineLoop(Slice(text, match.index, match.end), match.index,
                             0, Alternatives(registry), star, registry, hits))

\* The outer while loop of FindBlockComments and FindJSDocComments.
RegionLoop(text, lastIndex, start, end, star, registry, hits) ==
    RegionTurn(text, RegionExec(text, lastIndex, start, end, ~star),
               start, end, star, registry, hits)

\* The body of FindBlockComments on text, past its guard.
BlockScan(text, start, end, registry) ==
    RegionLoop(text, 0, Unescape(start), Unescape(end), FALSE, registry, <<>>)

\* The body of FindJSDocComments on text, past its guard: the outer
\* expression is the literal /(^|[ \t])(\/\*\*)+([\s\S]*?)(\*\/)/gm.
JSDocScan(text, registry) ==
    RegionLoop(text, 0, <<"/", "*", "*">>, <<"*", "/">>, TRUE, registry, <<>>)

-----------------------------------------------------------------------------
(* The Parser *)

\* setTags(): one CommentTag per configured tag, in the order configured.
\* The decoration type of a tag is opaque here and left out.
setTags(items) ==
    [i \in 1..Len(items) |->
        [tag |-> items[i], escapedTag |-> escapedTag(items[i]), ranges |-> <<>>]]

\* The expression before any SetRegex: the empty string.
EmptyExpression ==
    [kind |-> "empty", delimiter |-> <<>>, alternatives |-> <<>>]

\* The expression SetRegex builds from the fields g and the registry, as
\* its pieces: the kind of prefix, the delimiter with its slashes escaped and
\* the alternation of the escaped tags.
BuildExpression(g, c, registry) ==
    IF g.isPlainText /\ c.highlightPlainText
    THEN [kind |-> "plain", delimiter |-> <<>>,
          alternatives |-> Alternatives(registry)]
    ELSE [kind |-> "delimiter", delimiter |-> EscapeSlashes(g.delimiter),
          alternatives |-> Alternatives(registry)]

\* The Parser as its constructor leaves it under the configuration c.
Constructed(c) ==
    /\ contributions = c
    /\ tags = setTags(c.tags)
    /\ expression = EmptyExpression
    /\ delimiter = <<>>
    /\ blockCommentStart = <<>>
    /\ blockCommentEnd = <<>>
    /\ highlightSingleLineComments = TRUE
    /\ highlightMultilineComments = FALSE
    /\ highlightJSDoc = FALSE
    /\ isPlainText = FALSE
    /\ ignoreFirstLine = FALSE
    /\ supportedLanguage = TRUE
    /\ outcome = [op |-> "constructor", languageCode |-> "", text |-> <<>>,
                  result |-> "returned", hits |-> <<>>, applied |-> <<>>]

\* A call that does not return keeps the single thread: nothing runs after.
Running == outcome.result # "diverged"

\* The number of ranges in the buffers of the registry.
RECURSIVE Buffered(_)
Buffered(registry) ==
    IF registry = <<>> THEN 0
    ELSE Len(Head(registry).ranges) + Buffered(Tail(registry))

\* The hits among hs that fired tag i, in order, as ranges of text found by
\* scan.
RECURSIVE RangesOf(_, _, _, _)
RangesOf(hs, i, text, scan) ==
    IF hs = <<>> THEN <<>>
    ELSE (IF Head(hs).tag = i
          THEN <<[start |-> Head(hs).start, end |-> Head(hs).end,
                  text |-> text, scan |-> scan]>>
          ELSE <<>>) \o RangesOf(Tail(hs), i, text, scan)

\* matchTag.ranges.push(range) for every hit.
Push(registry, hs, text, scan) ==
    [i \in 1..Len(registry) |->
        [registry[i] EXCEPT !.ranges = @ \o RangesOf(hs, i, text, scan)]]

SetRegex(languageCode) ==
    LET g == setDelimiter(Grammar, languageCode, contributions)
    IN  /\ Running
        /\ delimiter' = g.delimiter
        /\ blockCommentStart' = g.blockCommentStart
        /\ blockCommentEnd' = g.blockCommentEnd
        /\ highlightSingleLineComments' = g.highlightSingleLineComments
        /\ highlightMultilineComments' = g.highlightMultilineComments
        /\ highlightJSDoc' = g.highlightJSDoc
        /\ isPlainText' = g.isPlainText
        /\ ignoreFirstLine' = g.ignoreFirstLine
        /\ supportedLanguage' = g.supportedLanguage
        /\ expression' = IF ~g.supportedLanguage THEN expression
                         ELSE BuildExpression(g, contributions, tags)
        /\ outcome' = [op |-> "SetRegex", languageCode |-> languageCode,
                       text |-> <<>>, result |-> "returned", hits |-> <<>>,
                       applied |-> <<>>]
        /\ UNCHANGED <<contributions, tags>>

\* A Find* call on text that ends as scanned says; MaxRanges caps the
\* buffers.
Find(op, scan, text, scanned) ==
    /\ Running
    /\ Buffered(tags) + Len(scanned.hits) <= MaxRanges
    /\ tags' = Push(tags, scanned.hits, text, scan)
    /\ outcome' = [op |-> op, languageCode |-> outcome.languageCode,
                   text |-> text, result |-> scanned.result,
                   hits |-> scanned.hits, applied |-> <<>>]
    /\ UNCHANGED <<contributions, expression, grammarVars>>

NothingFound == [result |-> "returned", hits |-> <<>>]

FindSingleLineComments(text) ==
    Find("FindSingleLineComments", "single", text,
         IF ~highlightSingleLineComments THEN NothingFound
         ELSE SingleLineScan(text, expression, isPlainText, ignoreFirstLine,
                             tags))

FindBlockComments(text) ==
    Find("FindBlockComments", "block", text,
         IF ~highlightMultilineComments THEN NothingFound
         ELSE [result |-> "returned",
               hits |-> BlockScan(text, blockCommentStart, blockCommentEnd,
                                  tags)])

FindJSDocComments(text) ==
    Find("FindJSDocComments", "jsdoc", text,
         IF ~highlightMultilineComments /\ ~highlightJSDoc THEN NothingFound
         ELSE [result |-> "returned", hits |-> JSDocScan(text, tags)])

\* A buffer that is left as it is.
NotCleared(ranges) == ranges

\* tag.ranges.length = 0, "clear the ranges for the next pass".
Cleared(ranges) == SubSeq(ranges, 1, 0)

\* setDecorations(tag.decoration, tag.ranges) for every tag, each followed
\* by the clearing of tag.ranges; applied is what setDecorations was given,
\* tag by tag.
ApplyDecorations ==
    /\ Running
    /\ tags' = [i \in 1..Len(tags) |->
                    [tags[i] EXCEPT !.ranges = Cleared(@)]]
    /\ outcome' = [op |-> "ApplyDecorations",
                   languageCode |-> outcome.languageCode, text |-> <<>>,
                   result |-> "returned", hits |-> <<>>,
                   applied |-> [i \in 1..Len(tags) |-> tags[i].ranges]]
    /\ UNCHANGED <<contributions, expression, grammarVars>>

-----------------------------------------------------------------------------
(* The inputs *)

\* Registries: one tag, the two tags of scenario A, a marker and a marker it
\* is a strict prefix of in both orders, and no tag at all.  Markers are not
\* empty and do not start with a blank.
TagLists ==
    {<<<<"!">>>>, <<<<"!">>, <<"t", "o", "d", "o">>>>, <<<<"!">>, <<"!", "!">>>>,
     <<<<"!", "!">>, <<"!">>>>, <<>>}

\* One language id of each kind of case the scans tell apart, and one that
\* has no case.
Languages == {"javascript", "c", "python", "ruby", "plaintext", "unknownlang"}

\* Every language id with a case, and three without: "asm" (its case is
\* commented out), "cobol" (the case is "COBOL") and "unknownlang".
AllLanguages == TableLanguages \cup {"asm", "cobol", "unknownlang"}

Configurations(tagLists) ==
    {[multilineComments |-> m, highlightPlainText |-> h, tags |-> t] :
        m \in BOOLEAN, h \in BOOLEAN, t \in tagLists}

\* The documents of the scenarios of the specification.
ScenarioA == <<"/", "/", " ", "T", "O", "D", "O", ":", " ", "f", "i", "x", " ", "t", "h", "i", "s", "\n", "l", "e", "t", " ", "x", " ", "=", " ", "1", ";", " ", "/", "/", " ", "!", " ", "u", "r", "g", "e", "n", "t">>

ScenarioB == <<"/", "*", "\n", " ", "*", " ", "!", " ", "w", "a", "r", "n", "i", "n", "g", " ", "h", "e", "r", "e", "\n", " ", "*", "/">>

ScenarioBDoc == <<"/", "*", "*", "\n", " ", "*", " ", "!", " ", "w", "a", "r", "n", "i", "n", "g", " ", "h", "e", "r", "e", "\n", " ", "*", "/">>

ScenarioC == <<"#", "!", "s", "h", "e", "b", "a", "n", "g", "-", "l", "i", "k", "e", "\n", "#", " ", "!", " ", "r", "e", "a", "l", " ", "t", "a", "g">>

\* Pieces of text the documents are put together from, one per line shape.
Fragments ==
    {<<"/", "/", " ", "!", " ", "a">>,
     <<"x", " ", "#", " ", "!", " ", "b">>,
     <<"#", " ", "!", " ", "c">>,
     <<"#", "!", "d">>,
     <<"/", "*", "*", "\n", " ", "*", " ", "!", " ", "e", "\n", " ", "*", "/">>,
     <<"/", "*", "\n", " ", "!", " ", "f", "\n", " ", "*", "/">>,
     <<"/", "/", " ", "!", "!", " ", "g">>,
     <<" ", "!", "!", " ", "h">>,
     <<>>}

RECURSIVE Joined(_)
\* The documents of up to n fragments, a line break between two.
Joined(n) ==
    IF n = 0 THEN {<<>>}
    ELSE Fragments \cup Joined(n - 1)
             \cup {a \o <<"\n">> \o b : a \in Joined(n - 1) \ {<<>>}, b \in Fragments}

ScanDocuments ==
    Joined(MaxFragments) \cup {ScenarioA, ScenarioB, ScenarioBDoc, ScenarioC}

\* The documents of the Parser's life cycle: a tagged line comment, a tagged
\* doc comment, a tagged block comment, and a "#" comment.
Documents ==
    {<<"/", "/", " ", "!", " ", "a">>, <<"/", "*", "*", "\n", " ", "*", " ", "!", " ", "e", "\n", " ", "*", "/">>,
     <<"/", "*", "\n", " ", "!", " ", "f", "\n", " ", "*", "/">>, <<"#", " ", "!", " ", "c">>}

-----------------------------------------------------------------------------
(* The specifications *)

\* The Parser through any sequence of calls of its public operations.
Init == \E c \in Configurations({<<<<"!">>>>}) : Constructed(c)

Next ==
    \/ \E languageCode \in Languages : SetRegex(languageCode)
    \/ \E text \in Documents : FindSingleLineComments(text)
    \/ \E text \in Documents : FindBlockComments(text)
    \/ \E text \in Documents : FindJSDocComments(text)
    \/ ApplyDecorations

Spec == Init /\ [][Next]_vars

\* The grammar table: any sequence of SetRegex calls, over every language.
InitGrammar == \E c \in Configurations({<<<<"!">>>>}) : Constructed(c)

NextGrammar == \E languageCode \in AllLanguages : SetRegex(languageCode)

SpecGrammar == InitGrammar /\ [][NextGrammar]_vars

\* The scans as functions of the configuration, the language and the text:
\* a new Parser, one SetRegex, one scan.
InitScan == \E c \in Configurations(TagLists) : Constructed(c)

NextScan ==
    \/ /\ outcome.op = "constructor"
       /\ \E languageCode \in Languages : SetRegex(languageCode)
    \/ /\ outcome.op = "SetRegex"
       /\ \/ \E text \in ScanDocuments : FindSingleLineComments(text)
          \/ \E text \in ScanDocuments : FindBlockComments(text)
          \/ \E text \in ScanDocuments : FindJSDocComments(text)

SpecScan == InitScan /\ [][NextScan]_vars

-----------------------------------------------------------------------------
(* The claims *)

FindOps == {"FindSingleLineComments", "FindBlockComments", "FindJSDocComments"}

\* The ranges a Find* call gave the tags, as the scan they are marked with.
ScanOf(op) ==
    CASE op = "FindSingleLineComments" -> "single"
      [] op = "FindBlockComments" -> "block"
      [] OTHER -> "jsdoc"

\* C1: when the most recent SetRegex resolved the language as unsupported,
\* each of the three Find* calls adds no range to any tag, whatever SetRegex
\* calls came before and whatever the text.
C1_UnsupportedAddsNothing ==
    (outcome.op \in FindOps /\ ~supportedLanguage) => outcome.hits = <<>>

C3_NoMultilineRanges ==
    (/\ outcome.op \in {"FindBlockComments", "FindJSDocComments"}
     /\ ~contributions.multilineComments
     /\ supportedLanguage) => outcome.hits = <<>>

\* C4: what SetRegex(L) leaves in the grammar fields and the expression does
\* not depend on the SetRegex calls before it: it is what SetRegex(L) leaves
\* on a Parser that has had no call.
C4_HistoryIndependent ==
    outcome.op = "SetRegex" =>
        LET g == setDelimiter(FreshGrammar, outcome.languageCode, contributions)
        IN  /\ Grammar = g
            /\ expression = IF g.supportedLanguage
                            THEN BuildExpression(g, contributions, tags)
                            ELSE EmptyExpression

\* C5: SetRegex(L) resolves L as unsupported exactly when L has no case in
\* the table or L is "plaintext" with highlightPlainText false; every other
\* L that has a case resolves as supported and not as plain text.
C5_UnsupportedIffNoCase ==
    outcome.op = "SetRegex" =>
        /\ ~supportedLanguage <=>
               \/ outcome.languageCode \notin TableLanguages
               \/ /\ outcome.languageCode = "plaintext"
                  /\ ~contributions.highlightPlainText
        /\ outcome.languageCode \in TableLanguages \ {"plaintext"} =>
               supportedLanguage /\ ~isPlainText

\* a is a strict prefix of b.
StrictPrefix(a, b) == Len(a) < Len(b) /\ SubSeq(b, 1, Len(a)) = a

\* Exactly the marker stands at offset p of text: the marker, and after it
\* a blank or the end of the text.
ExactlyAt(marker, text, p) ==
    /\ LiteralAt(marker, text, p, TRUE)
    /\ \/ p + Len(marker) = Len(text)
       \/ text[p + Len(marker) + 1] \in SpaceTab

\* C6: for tags A and B of the registry, A's marker a strict prefix of B's,
\* in either order, a range whose tag position holds exactly B's marker is a
\* range of B, in each of the three scans.
C6_LongestMarkerWins ==
    outcome.op \in FindOps =>
        \A k \in 1..Len(outcome.hits) : \A a, b \in 1..Len(tags) :
            (/\ StrictPrefix(tags[a].tag, tags[b].tag)
             /\ ExactlyAt(tags[b].tag, outcome.text, outcome.hits[k].tagAt))
                => outcome.hits[k].tag = b

\* The Parser holds the expression of a language with a delimiter, and the
\* last call was FindSingleLineComments.
DelimiterScan ==
    outcome.op = "FindSingleLineComments" /\ expression.kind = "delimiter"

\* Scenario A: "javascript", the tags "!" and "todo", the text of the
\* scenario.
InScenarioA ==
    /\ DelimiterScan
    /\ outcome.languageCode = "javascript"
    /\ contributions.tags = <<<<"!">>, <<"t", "o", "d", "o">>>>
    /\ outcome.text = ScenarioA

\* The text of the k-th range of the last call.
Covered(k) ==
    Slice(outcome.text, outcome.hits[k].start, outcome.hits[k].end)

BlockOps == {"FindBlockComments", "FindJSDocComments"}

\* Scenario B: "c", multilineComments on, a registry with the tag "!".
ScenarioBSetting ==
    /\ outcome.languageCode = "c"
    /\ contributions.multilineComments
    /\ \E i \in 1..Len(tags) : tags[i].tag = <<"!">>

\* The one range hs holds is a range of the tag "!" and covers
\* "! warning here".
OneWarning(hs) ==
    /\ Len(hs) = 1
    /\ tags[hs[1].tag].tag = <<"!">>
    /\ Slice(outcome.text, hs[1].start, hs[1].end) =
           <<"!", " ", "w", "a", "r", "n", "i", "n", "g", " ", "h", "e", "r", "e">>

LeadStart(text, from, p) ==
    Max({q \in from..p : q = from \/ AtLineStart(text, q, TRUE)})

\* Blanks only.
BlankLead(lead) == \A j \in 1..Len(lead) : lead[j] \in SpaceTab

\* Blanks, one "*", blanks.
StarLead(lead) ==
    \E j \in 1..Len(lead) :
        /\ lead[j] = "*"
        /\ \A i \in 1..Len(lead) : i # j => lead[i] \in SpaceTab

TwiceTheSame ==
    <<"#", " ", "!", " ", "c", "\n", "#", " ", "!", " ", "c">>

\* Where the ranges of the last call start, in order.
Starts == [k \in 1..Len(outcome.hits) |-> outcome.hits[k].start]

\* Whether FindSingleLineComments keeps a range that starts at start.
KeptStart(start) == ~(ignoreFirstLine /\ start = 0)

\* The ranges among hs that FindSingleLineComments keeps.
KeptOf(hs) == SelectSeq(hs, LAMBDA h : KeptStart(h.start))

C10_RangesInBounds ==
    outcome.op \in FindOps =>
        \A k \in 1..Len(outcome.hits) :
            LET h == outcome.hits[k]
            IN  /\ 0 <= h.start /\ h.start <= h.end
                /\ h.end <= Len(outcome.text)
                /\ outcome.op \in BlockOps =>
                       /\ 0 <= h.from /\ h.from <= h.start
                       /\ h.end <= h.to /\ h.to <= Len(outcome.text)

\* A block scan has given a range in a comment that does not open the text.
C10_Witness ==
    /\ outcome.op \in BlockOps
    /\ \E k \in 1..Len(outcome.hits) :
           /\ outcome.hits[k].from > 0
           /\ outcome.hits[k].start > outcome.hits[k].from

\* C11: for every text, the empty text and texts with empty lines among
\* them, every supported language, plain text with highlightPlainText on
\* among them, and every registry, the empty one among them, the match
\* loops of the three Find* calls end: no exec leaves the loop where it was.
C11_LoopsTerminate ==
    (outcome.op \in FindOps /\ supportedLanguage) =>
        outcome.result # "diverged"

====
